---------------------------- MODULE Spec2Model ----------------------------
(***************************************************************************)
(* Enrollment pipeline of gabriel-adutra/suthub-test:                      *)
(*   - the age-group registry        (backend/api/app.py)                  *)
(*   - the CPF validator             (backend/utils/cpf_utils.py)          *)
(*   - enrollment intake             (backend/api/services/                *)
(*                                    enrollment_service.py)               *)
(*   - the queue worker              (backend/worker/consumer_enrollment)  *)
(* The record store (MongoDB collections age_groups, enrollments, users)   *)
(* and the broker (Redis lists enrollments_queue, enrollments_dlq) are the *)
(* shared state.  Every `await` on the store or the broker is one step of  *)
(* the request or worker that performs it.                                 *)
(***************************************************************************)
EXTENDS Integers, Sequences, FiniteSets, TLC

(***************************************************************************)
(* Bounds of the model.                                                    *)
(***************************************************************************)
MaxAge == 3
MaxGroups == 3
MaxConc == 2
MaxEnroll == 2
MaxFaults == 2
MaxIntakeFaults == 1
MaxForeign == 1
MaxWorkers == 2

(***************************************************************************)
(* JSON values of request payloads and queue messages.                     *)
(***************************************************************************)
JNull == [t |-> "null"]
JInt(n) == [t |-> "int", v |-> n]
JStr(s) == [t |-> "str", v |-> s]

IsNone(x) == x.t = "null"
IsInt(x) == x.t = "int"

Ages == 0..MaxAge

(***************************************************************************)
(* CPFUtils.  A CPF is a sequence of one-character strings.                *)
(***************************************************************************)
Digits == {"0", "1", "2", "3", "4", "5", "6", "7", "8", "9"}

DigitVal(c) ==
    CASE c = "0" -> 0 [] c = "1" -> 1 [] c = "2" -> 2 [] c = "3" -> 3
      [] c = "4" -> 4 [] c = "5" -> 5 [] c = "6" -> 6 [] c = "7" -> 7
      [] c = "8" -> 8 [] c = "9" -> 9

IsDigit(c) == c \in Digits

\* re.sub(r'\D', '', cpf) on a str
normalize_cpf(cpf) == SelectSeq(cpf, IsDigit)

\* sum(int(cpf[j]) * ((i + 1) - j) for j in range(i)), j counted from 0
RECURSIVE WeightedSum(_, _, _)
WeightedSum(cpf, i, j) ==
    IF j >= i THEN 0
    ELSE DigitVal(cpf[j + 1]) * ((i + 1) - j) + WeightedSum(cpf, i, j + 1)

\* Faulty variant of CheckDigit: a remainder of 10 is not turned into 0.
CheckDigitNoWrap(cpf, i) == (WeightedSum(cpf, i, 0) * 10) % 11

\* digito = ((soma * 10) % 11) % 10
CheckDigit(cpf, i) == ((WeightedSum(cpf, i, 0) * 10) % 11) % 10

AllSameDigit(cpf) == \A k \in 1..Len(cpf) : cpf[k] = cpf[1]

is_valid_cpf(raw) ==
    LET cpf == normalize_cpf(raw) IN
    IF Len(cpf) # 11 \/ AllSameDigit(cpf) THEN FALSE
    ELSE /\ DigitVal(cpf[10]) = CheckDigit(cpf, 9)
         /\ DigitVal(cpf[11]) = CheckDigit(cpf, 10)

CpfPlain == <<"0", "9", "7", "0", "2", "4", "1", "4", "4", "5", "8">>
CpfFormatted ==
    <<"0", "9", "7", ".", "0", "2", "4", ".", "1", "4", "4", "-", "5", "8">>
CpfBadCheck == <<"1", "2", "3", "4", "5", "6", "7", "8", "9", "0", "0">>
CpfRepeated == <<"1", "1", "1", "1", "1", "1", "1", "1", "1", "1", "1">>

VARIABLES
    groups,       \* collection age_groups: set of [id, name, min_age, max_age]
    nextGroupId,  \* the next ObjectId the store gives to an age group
    regs,         \* the create_age_group requests in flight, per request slot
    resp,         \* the last HTTP response the API produced
    enrolls,      \* collection enrollments: sequence of documents, _id = index
    users,        \* collection users (the Members): sequence, _id = index
    queue,        \* Redis list enrollments_queue, head first
    dlq,          \* Redis list enrollments_dlq, head first
    intake,       \* the request_enrollment call in flight
    workers,      \* the consumer processes: position in main / process_message
    sent,         \* ids of the enrollments whose message intake pushed
    accepted,     \* ids of the enrollments whose submit returned 201
    faults,       \* store / broker failures the environment may still cause
    foreign       \* messages other producers may still push to the queue

registryVars == <<groups, nextGroupId, regs>>
pipelineVars == <<enrolls, users, queue, dlq, intake, workers, sent, accepted,
                  faults, foreign>>
vars == <<groups, nextGroupId, regs, resp, enrolls, users, queue, dlq, intake,
          workers, sent, accepted, faults, foreign>>

(***************************************************************************)
(* Age-group registry: POST /api/v1/age-groups, DELETE /api/v1/age-groups  *)
(***************************************************************************)
\* Faulty variant of Overlaps: strict comparisons, so ranges that share
\* only an endpoint are not seen as overlapping.
OverlapsStrict(g, min_age, max_age) ==
    g.min_age < max_age /\ g.max_age > min_age

\* Faulty variant of Overlaps: only a stored range that covers the whole new
\* range counts.
OverlapsCovering(g, min_age, max_age) ==
    g.min_age <= min_age /\ g.max_age >= max_age

\* {"$lte": ["$min_age", max_age]} and {"$gte": ["$max_age", min_age]}
Overlaps(g, min_age, max_age) == g.min_age <= max_age /\ g.max_age >= min_age

HasOverlap(min_age, max_age) == \E g \in groups : Overlaps(g, min_age, max_age)

\* Faulty variant of GroupContains: the bounds themselves are left out.
GroupContainsStrict(g, age) == g.min_age < age /\ g.max_age > age

\* find_one({"min_age": {"$lte": age}, "max_age": {"$gte": age}})
GroupContains(g, age) == g.min_age <= age /\ g.max_age >= age

FindContaining(age) ==
    IF IsInt(age) THEN {g \in groups : GroupContains(g, age.v)} ELSE {}

NoReg == [pc |-> "idle"]

RegPayloads ==
    [name : {JNull, JStr("G")},
     min_age : {JNull, JStr("x")} \cup {JInt(a) : a \in Ages},
     max_age : {JNull, JStr("x")} \cup {JInt(a) : a \in Ages}]

\* Faulty variant of RegisterValidation: min_age > max_age is not checked.
RegisterValidationNoRange(p) ==
    IF IsNone(p.name) \/ IsNone(p.min_age) \/ IsNone(p.max_age) THEN "missing"
    ELSE IF ~IsInt(p.min_age) \/ ~IsInt(p.max_age) THEN "type"
    ELSE "ok"

\* lines 70-81: the checks made before the store is touched
RegisterValidation(p) ==
    IF IsNone(p.name) \/ IsNone(p.min_age) \/ IsNone(p.max_age) THEN "missing"
    ELSE IF ~IsInt(p.min_age) \/ ~IsInt(p.max_age) THEN "type"
    ELSE IF p.min_age.v > p.max_age.v THEN "range"
    ELSE "ok"

\* lines 70-94: validation, then the overlap query (first await)
create_age_group_check(r, p) ==
    /\ regs[r].pc = "idle"
    /\ UNCHANGED pipelineVars
    /\ nextGroupId <= MaxGroups
    /\ LET v == RegisterValidation(p) IN
       IF v # "ok"
       THEN /\ resp' = [op |-> "register", code |-> 400, why |-> v, req |-> p]
            /\ UNCHANGED <<groups, nextGroupId, regs>>
       ELSE IF HasOverlap(p.min_age.v, p.max_age.v)
       THEN /\ resp' = [op |-> "register", code |-> 409, why |-> "overlap",
                        req |-> p]
            /\ UNCHANGED <<groups, nextGroupId, regs>>
       ELSE /\ regs' = [regs EXCEPT ![r] = [pc |-> "insert", req |-> p]]
            /\ UNCHANGED <<groups, nextGroupId, resp>>

\* lines 96-100: insert_one (second await), then the 201 response
create_age_group_insert(r) ==
    /\ regs[r].pc = "insert"
    /\ UNCHANGED pipelineVars
    /\ LET p == regs[r].req IN
       /\ groups' = groups \cup {[id |-> nextGroupId, name |-> p.name.v,
                                  min_age |-> p.min_age.v,
                                  max_age |-> p.max_age.v]}
       /\ nextGroupId' = nextGroupId + 1
       /\ regs' = [regs EXCEPT ![r] = NoReg]
       /\ resp' = [op |-> "register", code |-> 201, why |-> "created",
                   req |-> p]

\* Faulty variant of delete_age_group: deleted_count is not looked at, an
\* id that matches nothing is answered 204 as well.
delete_age_group_unchecked(gid) ==
    /\ IF gid = 0
       THEN /\ resp' = [op |-> "remove", code |-> 400, why |-> "invalid_id",
                        req |-> gid]
            /\ UNCHANGED groups
       ELSE /\ groups' = {g \in groups : g.id # gid}
            /\ resp' = [op |-> "remove", code |-> 204, why |-> "removed",
                        req |-> gid]
    /\ UNCHANGED <<nextGroupId, regs>>
    /\ UNCHANGED pipelineVars

\* lines 122-141; gid = 0 stands for a string that is no ObjectId
delete_age_group(gid) ==
    /\ IF gid = 0
       THEN /\ resp' = [op |-> "remove", code |-> 400, why |-> "invalid_id",
                        req |-> gid]
            /\ UNCHANGED groups
       ELSE IF \E g \in groups : g.id = gid
       THEN /\ groups' = {g \in groups : g.id # gid}
            /\ resp' = [op |-> "remove", code |-> 204, why |-> "removed",
                        req |-> gid]
       ELSE /\ resp' = [op |-> "remove", code |-> 404, why |-> "not_found",
                        req |-> gid]
            /\ UNCHANGED groups
    /\ UNCHANGED <<nextGroupId, regs>>
    /\ UNCHANGED pipelineVars

NoResp == [op |-> "none", code |-> 0, why |-> "none", req |-> 0]

(***************************************************************************)
(* Failures of the store and of the broker.  An operation the environment  *)
(* makes fail raises in the caller and leaves the store as it was.         *)
(***************************************************************************)
Outcomes == IF faults > 0 THEN {"ok", "raise"} ELSE {"ok"}

Spend(o) == faults' = IF o = "ok" THEN faults ELSE faults - 1

(***************************************************************************)
(* Enrollment intake: EnrollmentService.request_enrollment                 *)
(***************************************************************************)
NoIntake == [pc |-> "idle"]

SubmitPayloads ==
    [name : {JNull, JStr(""), JStr("Ana")},
     age : {JNull, JStr("x")} \cup {JInt(a) : a \in Ages},
     cpf : {JNull, JStr(CpfFormatted), JStr(CpfBadCheck)}]

\* Faulty variant of SubmitValidation: the CPF is checked before the type
\* of age.
SubmitValidationCpfFirst(p) ==
    IF IsNone(p.name) \/ IsNone(p.age) \/ IsNone(p.cpf) THEN "missing"
    ELSE IF ~is_valid_cpf(normalize_cpf(p.cpf.v)) THEN "cpf"
    ELSE IF ~IsInt(p.age) THEN "type"
    ELSE IF FindContaining(p.age) = {} THEN "group"
    ELSE "ok"

\* Faulty variant of SubmitValidation: the CPF is not validated.
SubmitValidationNoCpf(p) ==
    IF IsNone(p.name) \/ IsNone(p.age) \/ IsNone(p.cpf) THEN "missing"
    ELSE IF ~IsInt(p.age) THEN "type"
    ELSE IF FindContaining(p.age) = {} THEN "group"
    ELSE "ok"

\* lines 43-65: the first failing check, in the order of the code
SubmitValidation(p) ==
    IF IsNone(p.name) \/ IsNone(p.age) \/ IsNone(p.cpf) THEN "missing"
    ELSE IF ~IsInt(p.age) THEN "type"
    ELSE IF ~is_valid_cpf(normalize_cpf(p.cpf.v)) THEN "cpf"
    ELSE IF FindContaining(p.age) = {} THEN "group"
    ELSE "ok"

SubmitStatus(v) == IF v \in {"missing", "type"} THEN 400 ELSE 422

\* lines 68-77: the document insert_one stores
NewEnrollment(p) ==
    [name |-> p.name, age |-> p.age, cpf |-> JStr(normalize_cpf(p.cpf.v)),
     status |-> "queued", reason |-> "none", user_id |-> 0,
     processed_at |-> FALSE]

\* Faulty variant of NewMessage: the CPF as it was submitted.
NewMessageRawCpf(id, p) ==
    [kind |-> "json", enrollment_id |-> [t |-> "oid", v |-> id],
     name |-> p.name, age |-> p.age, cpf |-> p.cpf]

\* line 85: the message json.dumps serialises
NewMessage(id, p) ==
    [kind |-> "json", enrollment_id |-> [t |-> "oid", v |-> id],
     name |-> p.name, age |-> p.age, cpf |-> JStr(normalize_cpf(p.cpf.v))]

\* lines 39-79: validation, the age-group query and insert_one
request_enrollment_begin(p) ==
    /\ intake.pc = "idle"
    /\ LET v == SubmitValidation(p) IN
       IF v # "ok"
       THEN /\ resp' = [op |-> "submit", code |-> SubmitStatus(v), why |-> v,
                        req |-> p]
            /\ UNCHANGED <<enrolls, intake>>
       ELSE /\ Len(enrolls) < MaxEnroll
            /\ enrolls' = Append(enrolls, NewEnrollment(p))
            /\ intake' = [pc |-> "publish", id |-> Len(enrolls) + 1, req |-> p]
            /\ UNCHANGED resp
    /\ UNCHANGED <<registryVars, users, queue, dlq, workers, sent, accepted,
                   faults, foreign>>

\* lines 83-88: redis.from_url, rpush, close inside the try block.
\* "raise": rpush raised, nothing was pushed.  "raise_after_push": rpush
\* appended the message and r.close() (line 87) raised.
PublishOutcomes ==
    IF faults > 0 THEN {"ok", "raise", "raise_after_push"} ELSE {"ok"}

request_enrollment_publish ==
    /\ intake.pc = "publish"
    /\ \E o \in PublishOutcomes :
        /\ Spend(o)
        /\ IF o = "raise"
           THEN UNCHANGED <<queue, sent>>
           ELSE /\ queue' = Append(queue, NewMessage(intake.id, intake.req))
                /\ sent' = sent \cup {intake.id}
        /\ IF o = "ok"
           THEN /\ intake' = NoIntake
                /\ accepted' = accepted \cup {intake.id}
                /\ resp' = [op |-> "submit", code |-> 201, why |-> "queued",
                            req |-> intake.req, id |-> intake.id]
           ELSE /\ intake' = [intake EXCEPT !.pc = "mark_failed"]
                /\ UNCHANGED <<resp, accepted>>
    /\ UNCHANGED <<registryVars, enrolls, users, dlq, workers, foreign>>

\* $set of update_one: only the named fields change; no document, no change
SetFields(id, status, reason) ==
    IF id \in 1..Len(enrolls)
    THEN [enrolls EXCEPT ![id].status = status, ![id].reason = reason]
    ELSE enrolls

SetStatus(id, status) ==
    IF id \in 1..Len(enrolls)
    THEN [enrolls EXCEPT ![id].status = status]
    ELSE enrolls

\* lines 89-93: the except block: update_one, then HTTP 500
request_enrollment_mark_failed ==
    /\ intake.pc = "mark_failed"
    /\ \E o \in Outcomes :
        /\ Spend(o)
        /\ IF o = "ok"
           THEN /\ enrolls' = SetFields(intake.id, "failed", "enqueue_error")
                /\ resp' = [op |-> "submit", code |-> 500, why |-> "enqueue",
                            req |-> intake.req]
           ELSE /\ UNCHANGED enrolls
                /\ resp' = [op |-> "submit", code |-> 500, why |-> "unhandled",
                            req |-> intake.req]
    /\ intake' = NoIntake
    /\ UNCHANGED <<registryVars, users, queue, dlq, workers, sent, accepted,
                   foreign>>

(***************************************************************************)
(* The worker: main and EnrollmentProcessor.process_message                *)
(***************************************************************************)
NoMsg == [kind |-> "none"]

\* pc: the position in main / process_message; msg: the popped message;
\* uid: the id _persist_user returned; out: how the handling ended, as the
\* worker logs it; late: history, whether the enrollment the message names
\* was already past queued when the message was popped; elapsed: the time
\* units since `start` (line 143) of the handling in progress, or the time
\* the last handling took.
Off == [pc |-> "off", msg |-> NoMsg, out |-> "none", uid |-> 0,
        late |-> FALSE, elapsed |-> 0]
Polling == [pc |-> "pop", msg |-> NoMsg, out |-> "none", uid |-> 0,
            late |-> FALSE, elapsed |-> 0]

Workers == 1..MaxWorkers

\* Faulty variant of RPush: the element is appended twice.
RPushTwice(list, m) == Append(Append(list, m), m)

\* rpush appends at the tail of the list
RPush(list, m) == Append(list, m)

\* brpop takes the element at the tail of the list
BRPopValue(list) == list[Len(list)]
BRPopRest(list) == SubSeq(list, 1, Len(list) - 1)

\* line 186: an exception raised in the try block enters the handler
Raise(w) == [workers EXCEPT ![w].pc = "err_mark", ![w].out = "error"]

\* a return inside the try block: the finally clause runs next
Return(w, out) == [workers EXCEPT ![w].pc = "throttle", ![w].out = out]

Goto(w, pc) == [workers EXCEPT ![w].pc = pc]

\* Faulty variant of Reject: a rejection is dead-lettered as well.
RejectDeadLetter(w, out) ==
    [workers EXCEPT ![w].pc = "err_dlq", ![w].out = out]

\* lines 171-173: a rejection was recorded, process_message returns
Reject(w, out) == Return(w, out)

\* The worker has moved the enrollment the message names past queued
\* (failed with enqueue_error is what intake writes, not the worker).
PastQueued(m) ==
    /\ m.kind = "json"
    /\ m.enrollment_id.t = "oid"
    /\ m.enrollment_id.v \in 1..Len(enrolls)
    /\ enrolls[m.enrollment_id.v].status # "queued"
    /\ enrolls[m.enrollment_id.v].reason # "enqueue_error"

\* main, lines 211-220: brpop with timeout, decode, call process_message
main_pop(w) ==
    /\ workers[w].pc = "pop"
    /\ \E o \in Outcomes :
        /\ Spend(o)
        /\ IF o = "raise"
           THEN /\ workers' = Goto(w, "backoff")
                /\ UNCHANGED queue
           ELSE IF queue = <<>>
           THEN /\ workers' = Goto(w, "idle")
                /\ UNCHANGED queue
           ELSE /\ queue' = BRPopRest(queue)
                /\ IF BRPopValue(queue).kind = "notutf8"
                   THEN workers' = Goto(w, "backoff")
                   ELSE workers' = [workers EXCEPT ![w].pc = "parse",
                                       ![w].msg = BRPopValue(queue),
                                       ![w].late = PastQueued(BRPopValue(queue)),
                                       ![w].elapsed = 0]
    /\ UNCHANGED <<registryVars, resp, enrolls, users, dlq, intake, sent,
                   accepted, foreign>>

\* main, lines 212-214: nothing arrived, sleep(0.5), poll again
main_idle(w) ==
    /\ workers[w].pc = "idle"
    /\ workers' = Goto(w, "pop")
    /\ UNCHANGED <<registryVars, resp, enrolls, users, queue, dlq, intake,
                   sent, accepted, faults, foreign>>

\* Faulty variant of main_backoff: a loop-level exception ends the loop.
main_backoff_exit(w) ==
    /\ workers[w].pc = "backoff"
    /\ workers' = [workers EXCEPT ![w] = Off]
    /\ UNCHANGED <<registryVars, resp, enrolls, users, queue, dlq, intake,
                   sent, accepted, faults, foreign>>

\* main, lines 223-225: a loop-level exception, sleep(1), poll again
main_backoff(w) ==
    /\ workers[w].pc = "backoff"
    /\ workers' = Goto(w, "pop")
    /\ UNCHANGED <<registryVars, resp, enrolls, users, queue, dlq, intake,
                   sent, accepted, faults, foreign>>

\* Faulty variant of process_message_parse: a missing id is an exception.
process_message_parse_strict(w) ==
    /\ workers[w].pc = "parse"
    /\ LET m == workers[w].msg IN
       workers' = IF m.kind # "json" \/ IsNone(m.enrollment_id) THEN Raise(w)
                  ELSE Goto(w, "find")
    /\ UNCHANGED <<registryVars, resp, enrolls, users, queue, dlq, intake,
                   sent, accepted, faults, foreign>>

\* process_message, lines 142-153: json.loads, data.get, the id check
process_message_parse(w) ==
    /\ workers[w].pc = "parse"
    /\ LET m == workers[w].msg IN
       workers' = IF m.kind # "json" THEN Raise(w)
                  ELSE IF IsNone(m.enrollment_id) THEN Return(w, "no_id")
                  ELSE Goto(w, "find")
    /\ UNCHANGED <<registryVars, resp, enrolls, users, queue, dlq, intake,
                   sent, accepted, faults, foreign>>

\* ObjectId(enrollment_id) raises InvalidId unless the string is an ObjectId
IsObjectId(x) == x.t = "oid"

\* Faulty variant of AlreadyHandled: a queued record counts as handled.
AlreadyHandledQueued(status) == status # "none"

\* line 163: status not in ("queued", None)
AlreadyHandled(status) == status \notin {"queued", "none"}

\* process_message, lines 155-165: find_one and the idempotency guard
process_message_find(w) ==
    /\ workers[w].pc = "find"
    /\ LET id == workers[w].msg.enrollment_id IN
       \E o \in IF IsObjectId(id) THEN Outcomes ELSE {"ok"} :
        /\ Spend(o)
        /\ workers' =
             IF ~IsObjectId(id) \/ o = "raise" THEN Raise(w)
             ELSE IF id.v \notin 1..Len(enrolls) THEN Return(w, "not_found")
             ELSE IF AlreadyHandled(enrolls[id.v].status)
                  THEN Return(w, "skipped")
             ELSE Goto(w, "set_processing")
    /\ UNCHANGED <<registryVars, resp, enrolls, users, queue, dlq, intake,
                   sent, accepted, foreign>>

\* process_message, line 167: _update_enrollment_status(.., "processing")
process_message_set_processing(w) ==
    /\ workers[w].pc = "set_processing"
    /\ \E o \in Outcomes :
        /\ Spend(o)
        /\ IF o = "raise"
           THEN /\ workers' = Raise(w)
                /\ UNCHANGED enrolls
           ELSE /\ workers' = Goto(w, "validate")
                /\ enrolls' = SetStatus(workers[w].msg.enrollment_id.v,
                                        "processing")
    /\ UNCHANGED <<registryVars, resp, users, queue, dlq, intake, sent,
                   accepted, foreign>>

\* _validate_enrollment_data, lines 55-60: the CPF of the message.
\* normalize_cpf raises TypeError when cpf is not a string.
validate_cpf(w) ==
    /\ workers[w].pc = "validate"
    /\ LET m == workers[w].msg
           valid == m.cpf.t = "str" /\ is_valid_cpf(normalize_cpf(m.cpf.v))
       IN
       \E o \in IF m.cpf.t = "str" /\ ~valid THEN Outcomes ELSE {"ok"} :
        /\ Spend(o)
        /\ IF m.cpf.t # "str"
           THEN /\ workers' = Raise(w)
                /\ UNCHANGED enrolls
           ELSE IF valid
           THEN /\ workers' = Goto(w, "find_group")
                /\ UNCHANGED enrolls
           ELSE IF o = "raise"
           THEN /\ workers' = Raise(w)
                /\ UNCHANGED enrolls
           ELSE /\ workers' = Reject(w, "rejected_cpf")
                /\ enrolls' = SetFields(m.enrollment_id.v, "rejected",
                                        "cpf_invalido")
    /\ UNCHANGED <<registryVars, resp, users, queue, dlq, intake, sent,
                   accepted, foreign>>

\* Faulty variant of validate_group: the age group is not looked up again.
validate_group_skipped(w) ==
    /\ workers[w].pc = "find_group"
    /\ \E o \in Outcomes :
        /\ Spend(o)
        /\ workers' = IF o = "raise" THEN Raise(w) ELSE Goto(w, "persist_user")
    /\ UNCHANGED <<registryVars, resp, enrolls, users, queue, dlq, intake,
                   sent, accepted, foreign>>

\* _validate_enrollment_data, lines 61-69: the age group of the message's age
validate_group(w) ==
    /\ workers[w].pc = "find_group"
    /\ LET m == workers[w].msg IN
       \E o \in Outcomes :
        /\ Spend(o)
        /\ IF o = "raise"
           THEN /\ workers' = Raise(w)
                /\ UNCHANGED enrolls
           ELSE IF FindContaining(m.age) = {}
           THEN /\ workers' = Reject(w, "rejected_group")
                /\ enrolls' = SetFields(m.enrollment_id.v, "rejected",
                                        "faixa_nao_encontrada")
           ELSE /\ workers' = Goto(w, "persist_user")
                /\ UNCHANGED enrolls
    /\ UNCHANGED <<registryVars, resp, users, queue, dlq, intake, sent,
                   accepted, foreign>>

\* _persist_user, lines 83-88 (called at 175-176): the Member document
NewUser(m) == [name |-> m.name, age |-> m.age,
               cpf |-> JStr(normalize_cpf(m.cpf.v))]

persist_user(w) ==
    /\ workers[w].pc = "persist_user"
    /\ \E o \in Outcomes :
        /\ Spend(o)
        /\ IF o = "raise"
           THEN /\ workers' = Raise(w)
                /\ UNCHANGED users
           ELSE /\ users' = Append(users, NewUser(workers[w].msg))
                /\ workers' = [workers EXCEPT ![w].pc = "set_completed",
                                              ![w].uid = Len(users) + 1]
    /\ UNCHANGED <<registryVars, resp, enrolls, queue, dlq, intake, sent,
                   accepted, foreign>>

\* process_message, lines 177-184: status completed, user_id, processed_at
process_message_set_completed(w) ==
    /\ workers[w].pc = "set_completed"
    /\ LET id == workers[w].msg.enrollment_id.v IN
       \E o \in Outcomes :
        /\ Spend(o)
        /\ IF o = "raise"
           THEN /\ workers' = Raise(w)
                /\ UNCHANGED enrolls
           ELSE /\ workers' = Return(w, "completed")
                /\ enrolls' =
                     IF id \in 1..Len(enrolls)
                     THEN [enrolls EXCEPT ![id].status = "completed",
                                          ![id].user_id = workers[w].uid,
                                          ![id].processed_at = TRUE]
                     ELSE enrolls
    /\ UNCHANGED <<registryVars, resp, users, queue, dlq, intake, sent,
                   accepted, foreign>>

\* line 123: `if enrollment_id:` holds once line 146 has read a non-empty id
ResolvedId(m) == m.kind = "json" /\ ~IsNone(m.enrollment_id)

\* _handle_processing_error, lines 122-126: best-effort mark as failed
handle_processing_error_mark(w) ==
    /\ workers[w].pc = "err_mark"
    /\ LET m == workers[w].msg IN
       \E o \in IF ResolvedId(m) /\ IsObjectId(m.enrollment_id)
                THEN Outcomes ELSE {"ok"} :
        /\ Spend(o)
        /\ enrolls' =
             IF ResolvedId(m) /\ IsObjectId(m.enrollment_id) /\ o = "ok"
             THEN SetFields(m.enrollment_id.v, "failed", "processing_error")
             ELSE enrolls
    /\ workers' = Goto(w, "err_dlq")
    /\ UNCHANGED <<registryVars, resp, users, queue, dlq, intake, sent,
                   accepted, foreign>>

\* Faulty variant of handle_processing_error_dlq: the message goes back to
\* the primary queue.
handle_processing_error_requeue(w) ==
    /\ workers[w].pc = "err_dlq"
    /\ \E o \in Outcomes :
        /\ Spend(o)
        /\ queue' = IF o = "ok" THEN RPush(queue, workers[w].msg) ELSE queue
    /\ workers' = Goto(w, "throttle")
    /\ UNCHANGED <<registryVars, resp, enrolls, users, dlq, intake, sent,
                   accepted, foreign>>

\* _handle_processing_error, lines 127-130: best-effort dead-letter push
handle_processing_error_dlq(w) ==
    /\ workers[w].pc = "err_dlq"
    /\ \E o \in Outcomes :
        /\ Spend(o)
        /\ dlq' = IF o = "ok" THEN RPush(dlq, workers[w].msg) ELSE dlq
    /\ workers' = Goto(w, "throttle")
    /\ UNCHANGED <<registryVars, resp, enrolls, users, queue, intake, sent,
                   accepted, foreign>>

\* line 190: the least time a handling takes
MinHandling == 2

\* Faulty variant of Pad: the handling is not padded.
NoPad(elapsed) == elapsed

\* lines 189-191: if elapsed < 2.0, sleep(2.0 - elapsed)
Pad(elapsed) == IF elapsed < MinHandling THEN MinHandling ELSE elapsed

\* Time passes while a message is handled.
MaxElapsed == 3

tick(w) ==
    /\ workers[w].pc \notin {"off", "pop", "idle", "backoff"}
    /\ workers[w].elapsed < MaxElapsed
    /\ workers' = [workers EXCEPT ![w].elapsed = @ + 1]
    /\ UNCHANGED <<registryVars, resp, enrolls, users, queue, dlq, intake,
                   sent, accepted, faults, foreign>>

\* process_message, lines 188-191: the finally clause pads to 2 s; back to main
process_message_throttle(w) ==
    /\ workers[w].pc = "throttle"
    /\ workers' = [workers EXCEPT
                     ![w] = [Polling EXCEPT !.elapsed = Pad(workers[w].elapsed)]]
    /\ UNCHANGED <<registryVars, resp, enrolls, users, queue, dlq, intake,
                   sent, accepted, faults, foreign>>

\* The worker is suspended at an await: brpop and the sleeps of main, the
\* store and broker calls and the final sleep of process_message.  ObjectId()
\* and normalize_cpf raise before the await of their statement is reached.
AtAwait(w) ==
    LET m == workers[w].msg
        pc == workers[w].pc
    IN  \/ pc \in {"pop", "idle", "backoff", "set_processing", "find_group",
                   "persist_user", "set_completed", "err_dlq", "throttle"}
        \/ pc = "find" /\ IsObjectId(m.enrollment_id)
        \/ pc = "validate" /\ m.cpf.t = "str"
              /\ ~is_valid_cpf(normalize_cpf(m.cpf.v))
        \/ pc = "err_mark" /\ ResolvedId(m) /\ IsObjectId(m.enrollment_id)

\* The worker task is cancelled: CancelledError is raised at the await.  It
\* is not an Exception, so neither `except Exception` of process_message and
\* _handle_processing_error catches it; main re-raises it (lines 221-222)
\* and its finally clause closes the connections (226-228).
cancel(w) ==
    /\ workers[w].pc # "off"
    /\ AtAwait(w)
    /\ workers' = [workers EXCEPT ![w] = Off]
    /\ UNCHANGED <<registryVars, resp, enrolls, users, queue, dlq, intake,
                   sent, accepted, faults, foreign>>

(***************************************************************************)
(* Other producers of the primary queue.  The queue is an at-least-once    *)
(* list any client of the broker can push to: a message intake pushed may  *)
(* be delivered again, and messages intake never built may arrive.         *)
(***************************************************************************)
MessageOf(id) ==
    [kind |-> "json", enrollment_id |-> [t |-> "oid", v |-> id],
     name |-> enrolls[id].name, age |-> enrolls[id].age,
     cpf |-> enrolls[id].cpf]

Redeliver ==
    /\ foreign > 0
    /\ \E id \in sent :
        queue' = RPush(queue, MessageOf(id))
    /\ foreign' = foreign - 1
    /\ UNCHANGED <<registryVars, resp, enrolls, users, dlq, intake, workers,
                   sent, accepted, faults>>

ForeignJson(id, cpf) ==
    [kind |-> "json", enrollment_id |-> id, name |-> JStr("Eve"),
     age |-> JInt(1), cpf |-> cpf]

ForeignMessages ==
    {[kind |-> "notjson"], [kind |-> "notutf8"],
     ForeignJson(JNull, JStr(CpfPlain)),
     ForeignJson(JStr("abc"), JStr(CpfPlain)),
     ForeignJson([t |-> "oid", v |-> MaxEnroll + 1], JStr(CpfPlain)),
     ForeignJson([t |-> "oid", v |-> 1], JStr(CpfPlain)),
     ForeignJson([t |-> "oid", v |-> 1], JStr(CpfBadCheck)),
     ForeignJson([t |-> "oid", v |-> 1], JNull)}

Inject ==
    /\ foreign > 0
    /\ \E m \in ForeignMessages :
        queue' = RPush(queue, m)
    /\ foreign' = foreign - 1
    /\ UNCHANGED <<registryVars, resp, enrolls, users, dlq, intake, workers,
                   sent, accepted, faults>>

(***************************************************************************)
(* Specifications                                                          *)
(***************************************************************************)
InitEmpty ==
    /\ resp = NoResp
    /\ regs = [r \in 1..MaxConc |-> NoReg]
    /\ enrolls = <<>>
    /\ users = <<>>
    /\ queue = <<>>
    /\ dlq = <<>>
    /\ intake = NoIntake
    /\ sent = {}
    /\ accepted = {}

\* The registry alone, empty at start: no worker runs, nothing fails.
InitRegistry ==
    /\ InitEmpty
    /\ groups = {}
    /\ nextGroupId = 1
    /\ workers = [w \in Workers |-> Off]
    /\ faults = 0
    /\ foreign = 0

NoneInFlight == \A r \in 1..MaxConc : regs[r].pc = "idle"

\* Requests served one at a time: a request starts when none is in flight.
RegisterSeq == \E p \in RegPayloads : NoneInFlight /\ create_age_group_check(1, p)

RegisterInsert == \E r \in 1..MaxConc : create_age_group_insert(r)

Remove == \E gid \in 0..MaxGroups : NoneInFlight /\ delete_age_group(gid)

NextRegistry == RegisterSeq \/ RegisterInsert \/ Remove

SpecRegistry == InitRegistry /\ [][NextRegistry]_vars

\* Requests served concurrently: any idle slot may start a request.  The
\* payloads are those that pass validation and reach the store.
ValidRanges == {p \in RegPayloads : RegisterValidation(p) = "ok"}

RegisterConc ==
    \E r \in 1..MaxConc : \E p \in ValidRanges : create_age_group_check(r, p)

RemoveConc == \E gid \in 0..MaxGroups : delete_age_group(gid)

NextRace == RegisterConc \/ RegisterInsert \/ RemoveConc

SpecRace == InitRegistry /\ [][NextRace]_vars

\* The pipeline starts with one range registered, [1, 2] (SpecRegistry
\* reaches this registry); the range may be removed at any time.
CoreGroup == [id |-> 1, name |-> "G", min_age |-> 1, max_age |-> 2]

InitRegistered ==
    /\ InitEmpty
    /\ groups = {CoreGroup}
    /\ nextGroupId = 2

RemoveExisting == \E g \in groups : NoneInFlight /\ delete_age_group(g.id)

\* Intake alone: every payload, publish failures, no worker.
InitIntake ==
    /\ InitRegistered
    /\ workers = [w \in Workers |-> Off]
    /\ faults = MaxIntakeFaults
    /\ foreign = 0

Submit == \E p \in SubmitPayloads : request_enrollment_begin(p)

NextIntake ==
    \/ RemoveExisting
    \/ Submit
    \/ request_enrollment_publish
    \/ request_enrollment_mark_failed

SpecIntake == InitIntake /\ [][NextIntake]_vars

\* The pipeline: intake and one worker, with store and broker failures.
CorePayload == [name |-> JStr("Ana"), age |-> JInt(1), cpf |-> JStr(CpfFormatted)]

Init ==
    /\ InitRegistered
    /\ workers = [w \in Workers |-> IF w = 1 THEN Polling ELSE Off]
    /\ faults = MaxFaults
    /\ foreign = 0

SubmitCore == request_enrollment_begin(CorePayload)

WorkerStep ==
    \E w \in Workers :
        \/ main_pop(w)
        \/ main_idle(w)
        \/ main_backoff(w)
        \/ process_message_parse(w)
        \/ process_message_find(w)
        \/ process_message_set_processing(w)
        \/ validate_cpf(w)
        \/ validate_group(w)
        \/ persist_user(w)
        \/ process_message_set_completed(w)
        \/ handle_processing_error_mark(w)
        \/ handle_processing_error_dlq(w)
        \/ process_message_throttle(w)

Next ==
    \/ RemoveExisting
    \/ SubmitCore
    \/ request_enrollment_publish
    \/ request_enrollment_mark_failed
    \/ WorkerStep

Spec == Init /\ [][Next]_vars

\* The worker loop keeps taking steps; requests may stop arriving.
FairSpec == Init /\ [][Next]_vars /\ WF_vars(WorkerStep)

\* The pipeline with messages delivered more than once.
InitOpen ==
    /\ InitRegistered
    /\ workers = [w \in Workers |-> IF w = 1 THEN Polling ELSE Off]
    /\ faults = MaxFaults
    /\ foreign = MaxForeign

NextDup == Next \/ Redeliver

SpecDup == InitOpen /\ [][NextDup]_vars

\* The pipeline with messages of other producers as well.
NextOpen == Next \/ Redeliver \/ Inject

SpecOpen == InitOpen /\ [][NextOpen]_vars

\* The same, and the worker loop keeps taking steps.
FairSpecOpen == InitOpen /\ [][NextOpen]_vars /\ WF_vars(WorkerStep)

\* The pipeline with a worker that can be cancelled.
Cancel == \E w \in Workers : cancel(w)

NextCancel == Next \/ Cancel

SpecCancel == Init /\ [][NextCancel]_vars

\* The pipeline with every worker of the pool running and messages
\* delivered more than once.
MaxPoolFaults == 1

InitPool ==
    /\ InitRegistered
    /\ workers = [w \in Workers |-> Polling]
    /\ faults = MaxPoolFaults
    /\ foreign = MaxForeign

SpecPool == InitPool /\ [][NextDup]_vars

\* The pipeline on a discrete clock.
Tick == \E w \in Workers : tick(w)

NextClock == NextOpen \/ Tick

SpecClock == InitOpen /\ [][NextClock]_vars

\* The pipeline fed by intake alone, with CPFs of every kind submitted;
\* intake's messages may be delivered more than once.
CpfPayloads ==
    [name : {JStr("Ana")}, age : {JInt(1)},
     cpf : {JStr(CpfFormatted), JStr(CpfPlain), JStr(CpfBadCheck),
            JStr(CpfRepeated)}]

SubmitCpf == \E p \in CpfPayloads : request_enrollment_begin(p)

NextProduced ==
    \/ RemoveExisting
    \/ SubmitCpf
    \/ request_enrollment_publish
    \/ request_enrollment_mark_failed
    \/ WorkerStep
    \/ Redeliver

SpecProduced == InitOpen /\ [][NextProduced]_vars

\* Registry and intake together, nothing fails: ranges are registered and
\* removed one request at a time while well-formed submissions arrive.
WellFormedPayloads ==
    {p \in SubmitPayloads :
        p.name = JStr("Ana") /\ IsInt(p.age) /\ p.cpf = JStr(CpfFormatted)}

RegisterValid ==
    \E p \in ValidRanges :
        NoneInFlight /\ intake.pc = "idle" /\ create_age_group_check(1, p)

RemoveAny ==
    \E gid \in 0..MaxGroups :
        NoneInFlight /\ intake.pc = "idle" /\ delete_age_group(gid)

SubmitWellFormed ==
    \E p \in WellFormedPayloads : NoneInFlight /\ request_enrollment_begin(p)

NextMembership ==
    \/ RegisterValid
    \/ RegisterInsert
    \/ RemoveAny
    \/ SubmitWellFormed
    \/ request_enrollment_publish

SpecMembership == InitRegistry /\ [][NextMembership]_vars

\* CPFUtils alone: is_valid_cpf is called on digit strings, the result is
\* kept in resp.  The inputs: every pair of check digits after three
\* prefixes (the first check digit of the third comes from a remainder of
\* 10), the strings of one repeated digit, the empty string, and a valid
\* CPF with a digit dropped or added.
CpfPrefixes ==
    {<<"0", "9", "7", "0", "2", "4", "1", "4", "4">>,
     <<"1", "2", "3", "4", "5", "6", "7", "8", "9">>,
     <<"0", "0", "0", "0", "0", "0", "0", "0", "6">>}

CpfInputs ==
    {pre \o <<a, b>> : pre \in CpfPrefixes, a \in Digits, b \in Digits}
    \cup {[k \in 1..11 |-> d] : d \in Digits}
    \cup {<<>>, SubSeq(CpfPlain, 1, 10), CpfPlain \o <<"8">>}

call_is_valid_cpf(cpf) ==
    /\ resp' = [op |-> "is_valid_cpf", code |-> 0, why |-> "none",
                req |-> cpf, result |-> is_valid_cpf(cpf)]
    /\ UNCHANGED <<registryVars, pipelineVars>>

NextCpf == \E cpf \in CpfInputs : call_is_valid_cpf(cpf)

SpecCpf == InitRegistry /\ [][NextCpf]_vars

(***************************************************************************)
(* basic_auth, the dependency of every endpoint of app.py.  It runs before *)
(* the handler: resp keeps its verdict until the handler answers.          *)
(***************************************************************************)
\* _credentials_cache as _load_credentials reads it from the credentials file
CredentialsCache == [admin |-> "admin123"]

NoCredentials == [user |-> "none", pass |-> "none"]

\* What a client may send: no Authorization header, or a user and a password
Credentials ==
    {NoCredentials} \cup [user : {"admin", "eve"}, pass : {"admin123", "x"}]

\* Faulty variant of basic_auth: a known user is let in with any password.
basic_auth_user_only(credentials) ==
    IF credentials = NoCredentials THEN "401"
    ELSE IF credentials.user \notin DOMAIN CredentialsCache THEN "401"
    ELSE credentials.user

\* HTTPBasic() answers 401 without a header; lines 35-38: the user must be
\* in the cache and the password must equal the cached one
basic_auth(credentials) ==
    IF credentials = NoCredentials THEN "401"
    ELSE IF credentials.user \notin DOMAIN CredentialsCache THEN "401"
    ELSE IF CredentialsCache[credentials.user] # credentials.pass THEN "401"
    ELSE credentials.user

Endpoints == {"register", "list", "remove", "submit", "status"}

\* A request arrives at an endpoint: Depends(basic_auth) is resolved first
authenticate(op, credentials) ==
    /\ NoneInFlight
    /\ intake.pc = "idle"
    /\ resp' = IF basic_auth(credentials) = "401"
               THEN [op |-> op, code |-> 401, why |-> "unauthorized",
                     req |-> credentials]
               ELSE [op |-> op, code |-> 0, why |-> "authenticated",
                     req |-> credentials]
    /\ UNCHANGED <<registryVars, pipelineVars>>

\* The handler body runs only after basic_auth has returned the user
Authenticated(op) == resp.op = op /\ resp.why = "authenticated"

Authenticate ==
    \E op \in Endpoints : \E c \in Credentials : authenticate(op, c)

RegisterAuthenticated ==
    \E p \in ValidRanges :
        Authenticated("register") /\ create_age_group_check(1, p)

RemoveAuthenticated ==
    \E gid \in 0..MaxGroups :
        Authenticated("remove") /\ delete_age_group(gid)

SubmitAuthenticated ==
    \E p \in WellFormedPayloads :
        Authenticated("submit") /\ request_enrollment_begin(p)

NextAuth ==
    \/ Authenticate
    \/ RegisterAuthenticated
    \/ RegisterInsert
    \/ RemoveAuthenticated
    \/ SubmitAuthenticated
    \/ request_enrollment_publish

SpecAuth == InitRegistry /\ [][NextAuth]_vars

(***************************************************************************)
(* Properties                                                              *)
(***************************************************************************)
Disjoint(a, b) == ~(a.min_age <= b.max_age /\ a.max_age >= b.min_age)

\* C1: after any sequence of register and remove operations executed one at
\* a time, every two distinct groups of the registry have disjoint closed
\* intervals and every stored group has min_age <= max_age.
C1_NoOverlap ==
    /\ \A a \in groups : \A b \in groups : a # b => Disjoint(a, b)
    /\ \A g \in groups : g.min_age <= g.max_age

\* Two groups are stored, adjacent ones, after a third was removed.
C1_Witness ==
    /\ Cardinality(groups) = 2
    /\ nextGroupId = 4
    /\ \E a \in groups : \E b \in groups : a.max_age + 1 = b.min_age

\* C2: with the overlap check and the insert of concurrent register
\* requests interleaved, two requests whose ranges intersect never both
\* succeed: the stored groups are disjoint in every reachable state.
C2_AtomicCheckThenInsert ==
    \A a \in groups : \A b \in groups : a.id # b.id => Disjoint(a, b)

EnrollmentIds == 1..MaxEnroll

Status(e) == IF e \in 1..Len(enrolls) THEN enrolls[e].status ELSE "none"

\* C3: a delivery that finds its enrollment already moved past queued by an
\* earlier delivery changes no enrollment, creates no Member and pushes
\* nothing to either queue.
C3_LateDeliveryIsNoOp ==
    [][\A w \in Workers :
         (workers[w].late /\ workers'[w] # workers[w])
            => UNCHANGED <<enrolls, users, queue, dlq>>]_vars

BetweenMessages ==
    \A w \in Workers : workers[w].pc \in {"off", "pop", "idle", "backoff"}

CompletedWith(u) ==
    {e \in 1..Len(enrolls) :
        enrolls[e].status = "completed" /\ enrolls[e].user_id = u}

\* C4: whenever the worker is between two messages, every Member is the
\* user_id of exactly one completed Enrollment and every completed
\* Enrollment references an existing Member.
C4_MembersMatchCompleted ==
    BetweenMessages =>
        /\ \A u \in 1..Len(users) : Cardinality(CompletedWith(u)) = 1
        /\ \A e \in 1..Len(enrolls) :
              enrolls[e].status = "completed"
                 => enrolls[e].user_id \in 1..Len(users)

Terminal(e) == Status(e) \in {"completed", "rejected", "failed"}

\* C5: under weak fairness of the worker, every enrollment whose submit
\* returned success eventually is completed, rejected or failed.
C5_EventuallyTerminal ==
    \A e \in EnrollmentIds : (e \in accepted) ~> Terminal(e)

NoFailureYet == faults = MaxFaults

GroupRemains(e) ==
    e \in 1..Len(enrolls) /\ FindContaining(enrolls[e].age) # {}

Completed(e) == Status(e) = "completed" /\ enrolls[e].user_id # 0

C8_PublishFailureMarksFailed ==
    [][/\ (intake.pc = "mark_failed" /\ intake'.pc = "idle") =>
            /\ enrolls'[intake.id].status = "failed"
            /\ enrolls'[intake.id].reason = "enqueue_error"
            /\ resp'.code = 500
       /\ (intake.pc = "publish" /\ intake'.pc = "idle") =>
            /\ resp'.code = 201
            /\ queue' = Append(queue, NewMessage(intake.id, intake.req))]_vars

MessageFor(m, e) ==
    m.kind = "json" /\ m.enrollment_id = [t |-> "oid", v |-> e]

InQueue(e) == \E i \in 1..Len(queue) : MessageFor(queue[i], e)

HeldByWorker(e) ==
    \E w \in Workers :
        /\ workers[w].pc \notin {"off", "pop", "idle", "backoff"}
        /\ MessageFor(workers[w].msg, e)

\* C9: whenever no submit call is in progress, the message of every queued
\* Enrollment is in the primary queue or held by the worker.
C9_QueuedHasMessage ==
    intake.pc = "idle" =>
        \A e \in 1..Len(enrolls) :
            enrolls[e].status = "queued" => InQueue(e) \/ HeldByWorker(e)

Missing(p) == p.name = JNull \/ p.age = JNull \/ p.cpf = JNull

BadType(p) == p.age.t # "int"

BadCpf(p) == ~is_valid_cpf(normalize_cpf(p.cpf.v))

NoGroupFor(p) == ~\E g \in groups : g.min_age <= p.age.v /\ p.age.v <= g.max_age

NameNotBlank(p) == p.name # JStr("")

C11_BlankNameRejected ==
    [][/\ (intake.pc = "idle" /\ resp' # resp /\ resp'.op = "submit"
             /\ resp'.req.name = JStr(""))
          => resp'.code = 400 /\ resp'.why = "missing"
       /\ (intake.pc = "idle" /\ intake'.pc = "publish")
          => intake'.req.name # JStr("")]_vars

\* C12: a successful submit has created exactly one new Enrollment, queued
\* and with the normalized CPF, and the step that returns 201 appends
\* exactly one message whose enrollment_id, name, age and cpf are those of
\* that record, answers with that id and status queued, and changes no
\* other Enrollment, no Member and no age group.
C12_SubmitCreatesAndPublishes ==
    [][/\ (intake.pc = "idle" /\ intake'.pc = "publish") =>
            /\ Len(enrolls') = Len(enrolls) + 1
            /\ SubSeq(enrolls', 1, Len(enrolls)) = enrolls
            /\ intake'.id = Len(enrolls')
            /\ enrolls'[intake'.id].status = "queued"
            /\ enrolls'[intake'.id].name = intake'.req.name
            /\ enrolls'[intake'.id].age = intake'.req.age
            /\ enrolls'[intake'.id].cpf.v = SelectSeq(intake'.req.cpf.v, IsDigit)
            /\ UNCHANGED <<users, groups, queue, dlq>>
       /\ accepted' # accepted =>
            /\ accepted' = accepted \cup {intake.id}
            /\ Len(queue') = Len(queue) + 1
            /\ SubSeq(queue', 1, Len(queue)) = queue
            /\ LET m == queue'[Len(queue')]
                   e == enrolls[intake.id]
               IN  /\ m.enrollment_id = [t |-> "oid", v |-> intake.id]
                   /\ m.name = e.name /\ m.age = e.age /\ m.cpf = e.cpf
            /\ resp'.code = 201 /\ resp'.why = "queued"
            /\ resp'.id = intake.id
            /\ UNCHANGED <<enrolls, users, groups, dlq>>]_vars

\* A submit with a formatted CPF returned 201; its record holds the digits
\* only and its message is in the primary queue.
C12_Witness ==
    /\ resp.op = "submit" /\ resp.code = 201
    /\ resp.req.cpf = JStr(CpfFormatted)
    /\ \E e \in accepted :
          /\ enrolls[e].cpf = JStr(CpfPlain)
          /\ enrolls[e].status = "queued"
          /\ \E i \in 1..Len(queue) : queue[i].enrollment_id.v = e

\* C13: a submit that fails validation leaves the enrollments, the
\* Members, both queues and the registry as they were: a call answered 400
\* or 422 changes none of them, and an Enrollment is created only for an
\* input with every field present, a name that is not blank, an integer age,
\* a valid CPF and a matching group.
C13_FailedSubmitChangesNothing ==
    [][/\ (intake.pc = "idle" /\ resp' # resp /\ resp'.op = "submit"
             /\ resp'.code \in {400, 422})
          => UNCHANGED <<enrolls, users, queue, dlq, groups, intake, sent,
                         accepted>>
       /\ Len(enrolls') # Len(enrolls)
          => LET p == intake'.req
             IN  /\ ~Missing(p) /\ NameNotBlank(p)
                 /\ ~BadType(p) /\ ~BadCpf(p) /\ ~NoGroupFor(p)]_vars

ContainingGroups(age) == {g \in groups : g.min_age <= age /\ age <= g.max_age}

\* C14: a submit with a non-blank name, an integer age and a valid CPF is
\* answered 422 for the missing group exactly when no registered group has
\* min_age <= age <= max_age at that moment, and with registrations served
\* one at a time at most one group contains any given age.
C14_NoMatchingGroupIffNoneContains ==
    /\ [](\A age \in Ages : Cardinality(ContainingGroups(age)) <= 1)
    /\ [][/\ (intake.pc = "idle" /\ resp' # resp /\ resp'.op = "submit")
             => /\ ContainingGroups(resp'.req.age.v) = {}
                /\ resp'.code = 422 /\ resp'.why = "group"
                /\ UNCHANGED enrolls
          /\ (intake.pc = "idle" /\ intake'.pc = "publish")
             => ContainingGroups(intake'.req.age.v) # {}]_vars

\* Two adjacent groups are registered; an age on the upper bound of one was
\* accepted and an age just above the other was answered 422.
C14_Witness ==
    /\ Cardinality(groups) = 2
    /\ \E a \in groups : \E b \in groups : a.max_age + 1 = b.min_age
    /\ \E e \in accepted : \E g \in groups :
          enrolls[e].age.v = g.max_age /\ g.min_age < g.max_age
    /\ resp.op = "submit" /\ resp.code = 422 /\ resp.why = "group"
    /\ \E g \in groups : resp.req.age.v = g.max_age + 1

WellFormedRange(p) ==
    /\ p.name # JNull /\ p.min_age # JNull /\ p.max_age # JNull
    /\ p.min_age.t = "int" /\ p.max_age.t = "int"
    /\ p.min_age.v <= p.max_age.v

Intersecting(p) ==
    {g \in groups : g.min_age <= p.max_age.v /\ g.max_age >= p.min_age.v}

\* C15: a register request with all fields present, integer bounds and
\* min_age <= max_age is answered 409 if and only if a stored group
\* intersects its closed range; otherwise the group is added and answered
\* 201.  A rejected request leaves the registry unchanged.
C15_ConflictIffIntersects ==
    [][/\ (resp' # resp /\ resp'.op = "register" /\ resp'.code \in {400, 409})
          => /\ UNCHANGED groups
             /\ IF WellFormedRange(resp'.req)
                THEN resp'.code = 409 /\ Intersecting(resp'.req) # {}
                ELSE resp'.code = 400
       /\ \A r \in 1..MaxConc :
            /\ (regs[r].pc = "idle" /\ regs'[r].pc = "insert")
               => /\ WellFormedRange(regs'[r].req)
                  /\ Intersecting(regs'[r].req) = {}
                  /\ UNCHANGED groups
            /\ (regs[r].pc = "insert" /\ regs'[r].pc = "idle")
               => /\ resp'.code = 201
                  /\ \E g \in groups' \ groups :
                       /\ groups' = groups \cup {g}
                       /\ g.min_age = regs[r].req.min_age.v
                       /\ g.max_age = regs[r].req.max_age.v
                       /\ g.name = regs[r].req.name.v]_vars

\* Two adjacent ranges are stored, and a request for the single age that is
\* the upper endpoint of one of them was answered 409.
C15_Witness ==
    /\ Cardinality(groups) = 2
    /\ \E a \in groups : \E b \in groups : a.max_age + 1 = b.min_age
    /\ resp.op = "register" /\ resp.code = 409
    /\ \E g \in groups :
          /\ resp.req.min_age.v = g.max_age
          /\ resp.req.max_age.v = g.max_age
          /\ g.min_age < g.max_age

FieldAbsent(p) == p.name = JNull \/ p.min_age = JNull \/ p.max_age = JNull

BoundNotInteger(p) == p.min_age.t # "int" \/ p.max_age.t # "int"

\* C16: register checks a missing field, then non-integer bounds, then
\* min_age > max_age, and only then the overlap: a request failing one of
\* the first three is answered 400 for the first of them, never 409, and a
\* rejected request leaves the registry unchanged.
C16_RegisterCheckOrder ==
    [][(resp' # resp /\ resp'.op = "register" /\ resp'.code # 201)
          => LET p == resp'.req
                 r == <<resp'.code, resp'.why>>
             IN  /\ UNCHANGED <<groups, nextGroupId>>
                 /\ IF FieldAbsent(p) THEN r = <<400, "missing">>
                    ELSE IF BoundNotInteger(p) THEN r = <<400, "type">>
                    ELSE IF p.min_age.v > p.max_age.v THEN r = <<400, "range">>
                    ELSE r = <<409, "overlap">>]_vars

\* A request with min_age > max_age whose bounds also meet a stored group
\* was answered 400 for the range.
C16_Witness ==
    /\ resp.op = "register" /\ resp.code = 400 /\ resp.why = "range"
    /\ \E g \in groups :
          g.min_age <= resp.req.max_age.v /\ g.max_age >= resp.req.min_age.v

Stored(gid) == \E g \in groups : g.id = gid

RemovesExactly(gid) ==
    /\ groups' = {g \in groups : g.id # gid}
    /\ Cardinality(groups') = Cardinality(groups) - 1

\* C17 as stated: remove(id) for an id that is not in the registry is
\* answered 404 and leaves the registry unchanged; for a stored id it
\* deletes exactly that group; it never changes an Enrollment, a Member or
\* a queue.
C17_RemoveUnknownIs404 ==
    [][(resp' # resp /\ resp'.op = "remove")
          => /\ UNCHANGED <<enrolls, users, queue, dlq>>
             /\ IF Stored(resp'.req)
                THEN resp'.code = 204 /\ RemovesExactly(resp'.req)
                ELSE resp'.code = 404 /\ UNCHANGED groups]_vars

\* C17 amended: as above, except that an id that is not a well-formed
\* ObjectId is answered 400 instead of 404.
C17_RemoveUnknownIs404Or400 ==
    [][(resp' # resp /\ resp'.op = "remove")
          => /\ UNCHANGED <<enrolls, users, queue, dlq>>
             /\ IF Stored(resp'.req)
                THEN resp'.code = 204 /\ RemovesExactly(resp'.req)
                ELSE /\ resp'.code = IF resp'.req = 0 THEN 400 ELSE 404
                     /\ UNCHANGED groups]_vars

\* With a group stored and an enrollment queued, the removal of a
\* well-formed id that names no group was answered 404.
C17_Witness ==
    /\ resp.op = "remove" /\ resp.code = 404 /\ resp.req # 0
    /\ groups # {}
    /\ Len(enrolls) >= 1
    /\ Len(queue) >= 1

\* C18: the primary queue is first-in first-out: a pop takes the oldest
\* message of the queue (the one at its head, pushes append at the tail)
\* and hands it to the worker.
C18_PopTakesOldest ==
    [][Len(queue') < Len(queue)
          => /\ queue' = Tail(queue)
             /\ \E w \in Workers : workers'[w].msg = Head(queue)]_vars

D(cpf, k) == DigitVal(cpf[k])

FirstSum(c) ==
    D(c, 1) * 10 + D(c, 2) * 9 + D(c, 3) * 8 + D(c, 4) * 7 + D(c, 5) * 6
    + D(c, 6) * 5 + D(c, 7) * 4 + D(c, 8) * 3 + D(c, 9) * 2

SecondSum(c) ==
    D(c, 1) * 11 + D(c, 2) * 10 + D(c, 3) * 9 + D(c, 4) * 8 + D(c, 5) * 7
    + D(c, 6) * 6 + D(c, 7) * 5 + D(c, 8) * 4 + D(c, 9) * 3 + D(c, 10) * 2

Expected(sum) ==
    LET remainder == (sum * 10) % 11
    IN  IF remainder >= 10 THEN 0 ELSE remainder

Modulo11Valid(c) ==
    /\ Len(c) = 11
    /\ \A k \in 1..11 : c[k] \in Digits
    /\ \E j \in 2..11 : c[j] # c[1]
    /\ D(c, 10) = Expected(FirstSum(c))
    /\ D(c, 11) = Expected(SecondSum(c))

\* C19: is_valid_cpf returns true exactly for the strings of 11 digits that
\* are not one repeated digit and whose 10th and 11th digits are the check
\* digits of the modulo-11 rule; it accepts 09702414458 and rejects
\* 12345678900 and every string of one repeated digit.
C19_IsValidCpfIsModulo11 ==
    resp.op = "is_valid_cpf" =>
        /\ resp.result = Modulo11Valid(resp.req)
        /\ resp.req = CpfPlain => resp.result
        /\ resp.req = CpfBadCheck => ~resp.result
        /\ (\E d \in Digits : resp.req = [k \in 1..11 |-> d]) => ~resp.result

\* A CPF whose first check digit comes from a remainder of 10 was accepted.
C19_Witness ==
    /\ resp.op = "is_valid_cpf"
    /\ resp.req = <<"0", "0", "0", "0", "0", "0", "0", "0", "6", "0", "4">>
    /\ resp.result

\* C20: normalize_cpf gives the empty string for an absent cpf without
\* raising, so a worker message without cpf is handled as an invalid CPF:
\* unless the store fails, its validation ends with the enrollment rejected
\* for the CPF.
C20_AbsentCpfIsInvalidCpf ==
    [][\A w \in Workers :
         (/\ workers[w].pc = "validate"
          /\ workers[w].msg.cpf = JNull
          /\ workers'[w] # workers[w]
          /\ faults' = faults)
            => /\ workers'[w].out = "rejected_cpf"
               /\ Status(workers[w].msg.enrollment_id.v)' = "rejected"]_vars

ValidCredentials(c) == c.user = "admin" /\ c.pass = "admin123"

StatusStep(e) == <<enrolls[e].status, enrolls'[e].status>>

\* C22: every change of an Enrollment's status is queued -> processing,
\* processing -> completed, rejected or failed, or queued -> failed with
\* reason enqueue_error; completed, rejected and failed never change.
C22_StatusTransitions ==
    [][\A e \in 1..Len(enrolls) :
         \/ enrolls'[e].status = enrolls[e].status
         \/ StatusStep(e) \in {<<"queued", "processing">>,
                               <<"processing", "completed">>,
                               <<"processing", "rejected">>,
                               <<"processing", "failed">>}
         \/ /\ StatusStep(e) = <<"queued", "failed">>
            /\ enrolls'[e].reason = "enqueue_error"]_vars

Handling(w) == workers[w].pc \notin {"off", "pop", "idle", "backoff"}

NamesEnrollment(m) ==
    /\ m.kind = "json"
    /\ m.enrollment_id.t = "oid"
    /\ m.enrollment_id.v \in 1..Len(enrolls)

MarkedFailed(e) ==
    enrolls'[e].status = "failed" /\ enrolls'[e].reason = "processing_error"

Running == {w \in Workers : w = 1}

\* C24: no failure stops the worker loop.  Handling a message never raises
\* into the loop, whatever operation fails (the recovery path's update and
\* dead-letter push included); a loop-level exception backs off and polls
\* again; a running worker never exits; and from every state the worker
\* is eventually about to pop again.
C24_LoopNeverStops ==
    /\ [][\A w \in Running :
            /\ workers'[w].pc # "off"
            /\ workers[w].pc \notin {"pop", "backoff"}
               => workers'[w].pc # "backoff"
            /\ (Handling(w) /\ workers[w].pc # "throttle")
               => workers'[w].pc \notin {"pop", "idle", "backoff"}
            /\ workers[w].pc \in {"backoff", "throttle", "idle"}
                  /\ workers'[w] # workers[w]
               => workers'[w].pc = "pop"]_vars
    /\ \A w \in Running : []<>(workers[w].pc = "pop")

\* Handling raised, the mark-failed update raised and the dead-letter push
\* raised: the enrollment is still processing, the message is in no queue,
\* and process_message is returning.
C24_Witness ==
    \E w \in Running :
        /\ workers[w].pc = "throttle" /\ workers[w].out = "error"
        /\ NamesEnrollment(workers[w].msg)
        /\ enrolls[workers[w].msg.enrollment_id.v].status = "processing"
        /\ dlq = <<>>
        /\ faults = 0


CpfFails(m) == m.cpf.t # "str" \/ ~is_valid_cpf(normalize_cpf(m.cpf.v))

CpfStringFails(m) == m.cpf.t = "str" /\ ~is_valid_cpf(normalize_cpf(m.cpf.v))

RejectedWith(e, why) ==
    /\ enrolls'[e].status = "rejected" /\ enrolls'[e].reason = why
    /\ \A o \in 1..Len(enrolls) : o # e => enrolls'[o] = enrolls[o]

NothingElseChanges == UNCHANGED <<users, queue, dlq, groups>>

\* C25 as stated: when the worker's CPF re-validation fails the Enrollment
\* becomes rejected with reason cpf_invalid, no Member is created, the
\* age-group check is skipped, and the message goes to no queue.
C25_BadCpfRejected ==
    [][\A w \in Workers :
         /\ (workers[w].pc = "validate" /\ workers'[w].pc # "validate"
               /\ CpfFails(workers[w].msg))
            => /\ RejectedWith(workers[w].msg.enrollment_id.v, "cpf_invalid")
               /\ workers'[w].pc = "throttle"
               /\ NothingElseChanges
         /\ (workers[w].pc = "throttle" /\ workers'[w].pc = "pop"
               /\ workers[w].out = "rejected_cpf")
            => UNCHANGED <<enrolls, users, queue, dlq>>]_vars

\* C25 amended: a CPF string that fails validation is recorded as rejected
\* with reason cpf_invalido when the recording update succeeds; no Member
\* is created, the age-group check is skipped and the message goes to no
\* queue.  When the recording update raises, nothing is recorded and the
\* exception path takes over.
C25_BadCpfRejectedInvalido ==
    [][\A w \in Workers :
         /\ (workers[w].pc = "validate" /\ workers'[w].pc # "validate"
               /\ CpfStringFails(workers[w].msg))
            => IF faults' = faults
               THEN /\ RejectedWith(workers[w].msg.enrollment_id.v,
                                    "cpf_invalido")
                    /\ workers'[w].pc = "throttle"
                    /\ workers'[w].out = "rejected_cpf"
                    /\ NothingElseChanges
               ELSE /\ workers'[w].pc = "err_mark"
                    /\ UNCHANGED enrolls
                    /\ NothingElseChanges
         /\ (workers[w].pc = "throttle" /\ workers'[w].pc = "pop"
               /\ workers[w].out = "rejected_cpf")
            => UNCHANGED <<enrolls, users, queue, dlq>>
         /\ workers'[w].out = "rejected_cpf" /\ workers[w].out # "rejected_cpf"
            => workers[w].pc = "validate" /\ CpfStringFails(workers[w].msg)]_vars

\* A message with a CPF whose check digits are wrong was handled: the
\* enrollment is rejected, there is no Member and no dead letter.
C25_Witness ==
    \E w \in Workers :
        /\ workers[w].pc = "throttle" /\ workers[w].out = "rejected_cpf"
        /\ CpfStringFails(workers[w].msg)
        /\ enrolls[workers[w].msg.enrollment_id.v].status = "rejected"
        /\ enrolls[workers[w].msg.enrollment_id.v].reason = "cpf_invalido"
        /\ users = <<>> /\ dlq = <<>>


NoGroupNow(m) == FindContaining(m.age) = {}

\* C26 as stated: when the admitting age group was removed before the
\* worker handles the message and no group contains the age, the
\* Enrollment becomes rejected with reason group_not_found, no Member is
\* created and nothing is pushed to the dead-letter queue.
C26_RemovedGroupRejected ==
    [][\A w \in Workers :
         (workers[w].pc = "find_group" /\ workers'[w].pc # "find_group"
            /\ NoGroupNow(workers[w].msg))
         => /\ RejectedWith(workers[w].msg.enrollment_id.v, "group_not_found")
            /\ workers'[w].pc = "throttle"
            /\ NothingElseChanges]_vars

\* C26 amended: the worker records rejected with reason
\* faixa_nao_encontrada when the lookup and the recording update succeed;
\* no Member is created and nothing is dead-lettered.  When either raises,
\* nothing is recorded and the exception path takes over.
C26_RemovedGroupRejectedFaixa ==
    [][\A w \in Workers :
         /\ (workers[w].pc = "find_group" /\ workers'[w].pc # "find_group"
               /\ NoGroupNow(workers[w].msg))
            => IF faults' = faults
               THEN /\ RejectedWith(workers[w].msg.enrollment_id.v,
                                    "faixa_nao_encontrada")
                    /\ workers'[w].pc = "throttle"
                    /\ workers'[w].out = "rejected_group"
                    /\ NothingElseChanges
               ELSE /\ workers'[w].pc = "err_mark"
                    /\ UNCHANGED enrolls
                    /\ NothingElseChanges
         /\ (workers[w].pc = "throttle" /\ workers'[w].pc = "pop"
               /\ workers[w].out = "rejected_group")
            => UNCHANGED <<enrolls, users, queue, dlq>>
         /\ (workers[w].pc = "find_group" /\ workers'[w].pc = "persist_user")
            => ~NoGroupNow(workers[w].msg)]_vars

\* Intake admitted the enrollment, the only group was removed, and the
\* worker has handled the message: rejected, no Member, no dead letter.
C26_Witness ==
    \E w \in Workers :
        /\ workers[w].pc = "throttle" /\ workers[w].out = "rejected_group"
        /\ groups = {}
        /\ workers[w].msg.enrollment_id.v \in accepted
        /\ enrolls[workers[w].msg.enrollment_id.v].status = "rejected"
        /\ enrolls[workers[w].msg.enrollment_id.v].reason = "faixa_nao_encontrada"
        /\ users = <<>> /\ dlq = <<>>


NoId(m) == m.kind = "json" /\ IsNone(m.enrollment_id)

UnknownId(m) ==
    m.kind = "json" /\ ~IsNone(m.enrollment_id) /\ ~NamesEnrollment(m)

WellFormedUnknownId(m) == UnknownId(m) /\ IsObjectId(m.enrollment_id)

Steps(w) == workers'[w] # workers[w]

\* C27 as stated: handling a parsed message without enrollment_id, or one
\* whose enrollment_id names no stored Enrollment, changes no Enrollment,
\* creates no Member and pushes nothing to the primary or the dead-letter
\* queue; the worker then continues with the next message.
C27_UnknownMessagesDropped ==
    [][\A w \in Workers :
         (Handling(w) /\ Steps(w)
            /\ (NoId(workers[w].msg) \/ UnknownId(workers[w].msg)))
         => /\ UNCHANGED <<enrolls, users, queue, dlq>>
            /\ workers'[w].pc \in {"find", "throttle", "pop"}]_vars

\* C27 amended: a message without enrollment_id is always dropped; one
\* whose well-formed id names no stored Enrollment is dropped when the
\* lookup succeeds.  When the lookup raises, or the id is not a well-formed
\* ObjectId, the exception path runs: still no Enrollment, Member or primary
\* queue changes, and the message is dead-lettered at most once.
C27_UnknownMessagesDroppedOrDeadLettered ==
    [][\A w \in Workers :
         /\ (workers[w].pc = "parse" /\ Steps(w) /\ NoId(workers[w].msg))
            => workers'[w].pc = "throttle" /\ workers'[w].out = "no_id"
         /\ (workers[w].pc = "find" /\ Steps(w)
               /\ WellFormedUnknownId(workers[w].msg))
            => IF faults' = faults
               THEN workers'[w].pc = "throttle" /\ workers'[w].out = "not_found"
               ELSE workers'[w].pc = "err_mark"
         /\ (workers[w].pc = "find" /\ Steps(w) /\ UnknownId(workers[w].msg)
               /\ ~IsObjectId(workers[w].msg.enrollment_id))
            => workers'[w].pc = "err_mark"
         /\ (Handling(w) /\ Steps(w)
               /\ (NoId(workers[w].msg) \/ UnknownId(workers[w].msg)))
            => /\ UNCHANGED <<enrolls, users, queue>>
               /\ dlq' # dlq
                  => /\ workers[w].pc = "err_dlq"
                     /\ dlq' = Append(dlq, workers[w].msg)
               /\ workers[w].out \in {"no_id", "not_found"}
                  => UNCHANGED dlq /\ workers'[w].pc = "pop"]_vars

\* A message whose well-formed id names no stored Enrollment was dropped.
C27_Witness ==
    \E w \in Workers :
        /\ workers[w].pc = "throttle" /\ workers[w].out = "not_found"
        /\ WellFormedUnknownId(workers[w].msg)
        /\ dlq = <<>> /\ users = <<>>


Unparseable(m) == m.kind # "json"

\* C28: a popped message that cannot be parsed as a message object is
\* handed to process_message, whose handling changes no Enrollment, creates
\* no Member, and pushes the message, unchanged, to the dead-letter queue
\* exactly once.
C28_UnparseableDeadLettered ==
    [][\A w \in Workers :
         /\ (workers[w].pc = "pop" /\ Steps(w) /\ queue # <<>>
               /\ queue' = BRPopRest(queue)
               /\ Unparseable(BRPopValue(queue)))
            => /\ workers'[w].pc = "parse"
               /\ workers'[w].msg = BRPopValue(queue)
         /\ (Handling(w) /\ Steps(w) /\ Unparseable(workers[w].msg))
            => /\ UNCHANGED <<enrolls, users>>
               /\ workers[w].pc = "parse" => workers'[w].pc = "err_mark"
               /\ dlq' = IF workers[w].pc = "err_dlq"
                         THEN Append(dlq, workers[w].msg) ELSE dlq]_vars


HasUserId(e) == enrolls[e].user_id # 0

\* C29: in every reachable state an Enrollment has a user_id exactly when
\* its status is completed, a completed Enrollment has processed_at, and a
\* rejected or failed Enrollment has a reason and no user_id.
C29_UserIdIffCompleted ==
    \A e \in 1..Len(enrolls) :
        /\ HasUserId(e) <=> enrolls[e].status = "completed"
        /\ enrolls[e].status = "completed" => enrolls[e].processed_at
        /\ enrolls[e].status \in {"rejected", "failed"}
           => enrolls[e].reason # "none" /\ ~HasUserId(e)


Exits(w) == workers[w].pc # "off" /\ workers'[w].pc = "off"

\* C30: cancelling the worker takes effect only between iterations: when
\* the loop exits, the worker holds no popped message that has not reached
\* its outcome, and so no Enrollment it was handling is left in processing.
C30_CancelOnlyBetweenIterations ==
    [][\A w \in Workers :
         Exits(w)
         => /\ workers[w].pc \in {"pop", "idle", "backoff", "throttle"}
            /\ \A e \in 1..Len(enrolls) :
                  (NamesEnrollment(workers[w].msg)
                     /\ workers[w].msg.enrollment_id.v = e)
                  => enrolls[e].status # "processing"]_vars


PastGuard(w) ==
    workers[w].pc \in {"set_processing", "validate", "find_group",
                       "persist_user", "set_completed"}

\* C31: when several workers handle deliveries of the same message, the
\* steps from the status check to the completed update are performed by at
\* most one of them, and at most one Member is created for the enrollment.
C31_NoDoubleCompletion ==
    /\ \A w \in Workers : \A v \in Workers :
          (w # v /\ PastGuard(w) /\ PastGuard(v))
          => workers[w].msg.enrollment_id # workers[v].msg.enrollment_id
    /\ Len(users) <= Len(enrolls)


Returns(w) ==
    /\ workers[w].pc \notin {"off", "pop", "idle", "backoff"}
    /\ workers'[w].pc \in {"pop", "idle", "backoff"}

\* C32: on a discrete clock at least 2 time units lie between the start of
\* handling a message and the worker's next pop, on every handling path:
\* every handling returns to the loop through the padding of the finally
\* clause, whatever its outcome, and has then taken at least 2 units.
C32_HandlingTakesTwoUnits ==
    [][\A w \in Workers :
         Returns(w)
         => /\ workers[w].pc = "throttle"
            /\ workers'[w].pc = "pop"
            /\ workers'[w].elapsed >= 2
            /\ workers'[w].elapsed >= workers[w].elapsed]_vars

\* A handling that completed an enrollment has returned after exactly the
\* least time: the worker is about to pop again.
C32_Witness ==
    \E w \in Workers :
        /\ workers[w].pc = "pop"
        /\ workers[w].elapsed = 2
        /\ \E e \in 1..Len(enrolls) : enrolls[e].status = "completed"


SubmitFailed(e) ==
    /\ e \in 1..Len(enrolls)
    /\ e \notin accepted
    /\ ~(intake.pc # "idle" /\ intake.id = e)

\* C33: an enrollment whose submit call ended with the enqueue error is
\* never completed and never gets a Member, however the worker and
\* intake's failure path interleave.
C33_FailedSubmitNeverCompleted ==
    \A e \in 1..Len(enrolls) :
        SubmitFailed(e)
        => /\ enrolls[e].status # "completed"
           /\ enrolls[e].user_id = 0
           /\ \A w \in Workers :
                 (NamesEnrollment(workers[w].msg)
                    /\ workers[w].msg.enrollment_id.v = e)
                 => workers[w].uid = 0


MemberOf(e) == users[enrolls[e].user_id]

\* C34: the name, age and cpf of every Member equal those stored in the
\* Enrollment whose user_id references it, and the worker's re-validation
\* decides on the stored values: an Enrollment rejected for its CPF has a
\* stored CPF that fails validation.
C34_MemberMatchesStoredEnrollment ==
    \A e \in 1..Len(enrolls) :
        /\ enrolls[e].user_id \in 1..Len(users)
           => /\ MemberOf(e).name = enrolls[e].name
              /\ MemberOf(e).age = enrolls[e].age
              /\ MemberOf(e).cpf = enrolls[e].cpf
        /\ (enrolls[e].status = "rejected" /\ enrolls[e].reason = "cpf_invalido")
           => ~is_valid_cpf(normalize_cpf(enrolls[e].cpf.v))


\* C35: whenever every worker is waiting to pop, no Enrollment has status
\* processing: a handling that set processing also moved the record on to
\* completed, rejected or failed before it returned.
C35_NoProcessingBetweenMessages ==
    BetweenMessages
    => \A e \in 1..Len(enrolls) : enrolls[e].status # "processing"


ProducedByIntake(m) ==
    /\ NamesEnrollment(m)
    /\ m = MessageOf(m.enrollment_id.v)

\* C36: when every message in the primary queue was produced by intake,
\* the worker's CPF re-validation never fails: every message a worker
\* re-validates carries a normalized CPF that passes the validator, no
\* handling ends as a CPF rejection, and no Enrollment is rejected with
\* the CPF reason.
C36_RevalidationNeverFails ==
    /\ \A i \in 1..Len(queue) :
          /\ ProducedByIntake(queue[i])
          /\ ~CpfFails(queue[i])
          /\ normalize_cpf(queue[i].cpf.v) = queue[i].cpf.v
    /\ \A w \in Workers :
          /\ workers[w].pc = "validate" => ~CpfFails(workers[w].msg)
          /\ workers[w].out # "rejected_cpf"
    /\ \A e \in 1..Len(enrolls) : enrolls[e].reason # "cpf_invalido"

\* A message intake built from a CPF submitted with punctuation has passed
\* the worker's re-validation.
C36_Witness ==
    \E w \in Workers :
        /\ workers[w].pc = "find_group"
        /\ ProducedByIntake(workers[w].msg)
        /\ resp.op = "submit" /\ resp.code = 201
        /\ resp.req.cpf = JStr(CpfFormatted)
        /\ resp.id = workers[w].msg.enrollment_id.v


Names(m, e) == NamesEnrollment(m) /\ m.enrollment_id.v = e

Copies(e) ==
    Cardinality({i \in 1..Len(queue) : Names(queue[i], e)})
      + Cardinality({w \in Workers : Names(workers[w].msg, e)})

\* C37: every message intake pushes names an Enrollment that is already
\* stored, Enrollments are never deleted, and only intake pushes to the
\* primary queue, each message once.  So the worker never meets a message
\* without its Enrollment, and each message is handled at most once.
C37_ProducedMessagesHandledOnce ==
    /\ [](/\ \A i \in 1..Len(queue) : ProducedByIntake(queue[i])
          /\ \A w \in Workers :
                /\ workers[w].msg # NoMsg => ProducedByIntake(workers[w].msg)
                /\ workers[w].out # "not_found"
          /\ \A e \in 1..Len(enrolls) :
                Copies(e) <= IF e \in sent THEN 1 ELSE 0)
    /\ [][/\ Len(enrolls') >= Len(enrolls)
          /\ \A e \in 1..Len(enrolls) :
                /\ enrolls'[e].name = enrolls[e].name
                /\ enrolls'[e].age = enrolls[e].age
                /\ enrolls'[e].cpf = enrolls[e].cpf
          /\ queue' # queue
             => \/ queue' = BRPopRest(queue)
                \/ /\ intake.pc = "publish"
                   /\ intake.id \in 1..Len(enrolls)
                   /\ intake.id \notin sent
                   /\ queue' = RPush(queue, MessageOf(intake.id))]_vars

\* A message intake produced has been handled and the queue is empty.
C37_Witness ==
    \E w \in Workers :
        /\ workers[w].pc = "throttle" /\ workers[w].out = "completed"
        /\ ProducedByIntake(workers[w].msg)
        /\ workers[w].msg.enrollment_id.v \in sent
        /\ queue = <<>>

=============================================================================
